---- MODULE Spec2Model ----
(***************************************************************************)
(* crypto-sentinel-pipeline.                                               *)
(*                                                                         *)
(*   src/main.py           the index handler: a 5 minute in-memory cache   *)
(*                         in front of an external price API, a momentum   *)
(*                         score and an append to a history table.         *)
(*   src/dashboard/app.py  the dashboard: load_data (prefix enumeration,   *)
(*                         listing, capped fetch, cutoff filter, sort)     *)
(*                         behind a 60 second result cache, and the        *)
(*                         1 minute OHLCV resampling of its result.        *)
(*                                                                         *)
(* Time is an integer.  The handler's clock counts minutes, the            *)
(* dashboard's clock counts seconds.  Prices and quantities are integers;  *)
(* the score arithmetic is exact (a fraction is a numerator over a         *)
(* positive denominator), so float rounding error is not modelled.         *)
(* None is <<>> and a present value x is <<x>>.                            *)
(***************************************************************************)
EXTENDS Integers, Sequences, FiniteSets, TLC

VARIABLES
    now,          \* the wall clock (datetime.now(), pd.Timestamp.now())
    \* ---- src/main.py
    _CACHE,       \* [last_updated, payload], module global, line 19
    api,          \* what the external price API answers to the next GET
    history,      \* the items of the history table
    calls,        \* handler invocations so far
    fetches,      \* requests.get calls so far
    puts,         \* table.put_item calls so far
    fresh,        \* invocations that fetched data and computed a score
    resp,         \* what the last invocation gave its caller
    \* ---- calculate_index alone
    idx_data,     \* the argument
    idx_out,      \* the result, None before the call
    \* ---- src/dashboard/app.py
    bucket,       \* the objects of the bucket, in listing order
    st_cache,     \* st.cache_data's entries of load_data, by argument
    time_window,  \* the sidebar's selected window, hours
    runs,         \* script runs so far
    call,         \* what the last load_data call did
    df,           \* the script's df, the value load_data returned
    df_resampled  \* the candles, None before the script computed them

hvars == <<_CACHE, api, history, calls, fetches, puts, fresh, resp>>
ivars == <<idx_data, idx_out>>
dvars == <<bucket, st_cache, time_window, runs, call, df, df_resampled>>
vars  == <<now, hvars, ivars, dvars>>

None == <<>>
Some(x) == <<x>>
Truthy(opt) == opt # None

Max(a, b) == IF a >= b THEN a ELSE b
Min(a, b) == IF a <= b THEN a ELSE b

RECURSIVE SumSeq(_)
SumSeq(s) == IF s = <<>> THEN 0 ELSE s[1] + SumSeq(Tail(s))

(***************************************************************************)
(* Bounds of the model.                                                    *)
(***************************************************************************)
MaxCalls   == 3    \* handler invocations in one process
MaxMinutes == 7    \* the handler's clock stops advancing here
MaxLen     == 3    \* length of a price series given to calculate_index
MaxPrice   == 5    \* prices are 1..MaxPrice

(***************************************************************************)
(* src/main.py                                                             *)
(***************************************************************************)
COIN_ID == "pepe"
CACHE_DURATION_MINUTES == 5

\* A fraction num/den with den > 0.
Frac(n, d) == [num |-> n, den |-> d]

\* calculate_index, lines 33-42, on data['prices'] reduced to its prices.
\* prices[-1] raises IndexError on an empty list: the result is "raise".
\* sma_30 = sum/len, momentum = (last - sma_30)/sma_30,
\* base_score = 50 + momentum*100 = (100*len*last - 50*sum)/sum.
base_score(prices) ==
    LET n    == Len(prices)
        sum  == SumSeq(prices)
        last == prices[n]
    IN  Frac(100 * n * last - 50 * sum, sum)

\* max(0, min(100, x)) on a fraction.
clamp(x) == Frac(Max(0, Min(100 * x.den, x.num)), x.den)

\* int(x) of a non-negative fraction: truncation.
int_nearest(x) == (2 * x.num + x.den) \div (2 * x.den)
int(x) == x.num \div x.den

calculate_index(prices) ==
    IF prices = <<>> THEN [kind |-> "raise", value |-> 0]
    ELSE [kind |-> "return", value |-> int(clamp(base_score(prices)))]

\* line 81
sentiment_of(index_score) ==
    IF index_score > 75 THEN "Extreme Greed"
    ELSE IF index_score < 25 THEN "Fear" ELSE "Neutral"

\* fetch_market_data, lines 21-31: None when the GET raises, else the JSON.
\* api is "error" (raises), "empty" (a JSON value that is falsy) or a price
\* series (the JSON's 'prices', possibly an empty list).
ApiAnswers == {"error", "empty"}
ApiSeries == {<<>>, <<4>>, <<2, 4>>}
fetch_market_data(a) ==
    IF a = [kind |-> "error"] THEN None
    ELSE IF a = [kind |-> "empty"] THEN Some([kind |-> "empty"])
    ELSE Some(a)
\* `not data`
Falsy(data) == data = None \/ data = Some([kind |-> "empty"])

ApiStates ==
    {[kind |-> k] : k \in ApiAnswers}
        \cup {[kind |-> "json", prices |-> p] : p \in ApiSeries}

\* lines 64-66: the cache check.
IsCacheHit_inclusive(cache, t) ==
    /\ Truthy(cache.payload) /\ Truthy(cache.last_updated)
    /\ t - cache.last_updated[1] <= CACHE_DURATION_MINUTES
IsCacheHit(cache, t) ==
    /\ Truthy(cache.payload) /\ Truthy(cache.last_updated)
    /\ t - cache.last_updated[1] < CACHE_DURATION_MINUTES

Response(status, body) == [kind |-> "return", statusCode |-> status, body |-> body]
Raised == [kind |-> "raise", statusCode |-> 0, body |-> None]
NoResponse == [kind |-> "none", statusCode |-> 0, body |-> None]
FailedBody == Some([error |-> "Failed to fetch data"])

\* lines 76-78: the answer when the fetch gave nothing.
FetchFailed_always500(cache) == Response(500, FailedBody)
FetchFailed(cache) ==
    IF Truthy(cache.payload) THEN Response(200, cache.payload)
    ELSE Response(500, FailedBody)

\* save_to_history, lines 44-57: one put_item; an error is printed, not raised.
\* The pair is <<put_item calls made, items of the table after>>.
save_to_history_skipped(items, item, up) == <<0, items>>
save_to_history(items, item, up) ==
    <<1, IF up THEN Append(items, item) ELSE items>>

\* handler, lines 59-102.  up: whether this invocation's put_item succeeds.
handler(up) ==
    /\ calls < MaxCalls
    /\ calls' = calls + 1
    /\ UNCHANGED <<now, api, ivars, dvars>>
    /\ IF IsCacheHit(_CACHE, now)
       THEN /\ resp' = Response(200, _CACHE.payload)
            /\ UNCHANGED <<_CACHE, history, fetches, puts, fresh>>
       ELSE LET data == fetch_market_data(api) IN
            /\ fetches' = fetches + 1
            /\ IF Falsy(data)
               THEN /\ resp' = FetchFailed(_CACHE)
                    /\ UNCHANGED <<_CACHE, history, puts, fresh>>
               ELSE LET r == calculate_index(data[1].prices) IN
                    IF r.kind = "raise"
                    THEN /\ resp' = Raised
                         /\ UNCHANGED <<_CACHE, history, puts, fresh>>
                    ELSE LET index_score == r.value
                             sentiment   == sentiment_of(index_score)
                             result == [coin |-> COIN_ID,
                                        index_score |-> index_score,
                                        sentiment |-> sentiment,
                                        timestamp |-> now]
                             saved == save_to_history(history,
                                          [coin |-> COIN_ID, timestamp |-> now,
                                           index_score |-> index_score,
                                           sentiment |-> sentiment], up)
                         IN  /\ fresh' = fresh + 1
                             /\ puts' = puts + saved[1]
                             /\ history' = saved[2]
                             /\ _CACHE' = [last_updated |-> Some(now),
                                           payload |-> Some(result)]
                             /\ resp' = Response(200, Some(result))

\* The environment of the handler: time passes, the API's answer changes.
Tick ==
    /\ now < MaxMinutes
    /\ now' = now + 1
    /\ UNCHANGED <<hvars, ivars, dvars>>

ApiChanges ==
    /\ \E a \in ApiStates : a # api /\ api' = a
    /\ UNCHANGED <<now, _CACHE, history, calls, fetches, puts, fresh,
                   resp, ivars, dvars>>

IdleIndex == idx_data = <<>> /\ idx_out = None
IdleDash ==
    /\ bucket = <<>> /\ st_cache = <<>> /\ time_window = 4 /\ runs = 0
    /\ call = None /\ df = <<>> /\ df_resampled = None
IdleHandler ==
    /\ _CACHE = [last_updated |-> None, payload |-> None]
    /\ api = [kind |-> "error"] /\ history = <<>>
    /\ calls = 0 /\ fetches = 0 /\ puts = 0 /\ fresh = 0
    /\ resp = NoResponse

\* A cold process (line 19) at minute 0.
InitHandler ==
    /\ now = 0
    /\ _CACHE = [last_updated |-> None, payload |-> None]
    /\ api \in ApiStates
    /\ history = <<>>
    /\ calls = 0 /\ fetches = 0 /\ puts = 0 /\ fresh = 0
    /\ resp = NoResponse
    /\ IdleIndex /\ IdleDash

Invoke == \E up \in BOOLEAN : handler(up)

NextHandler == Invoke \/ Tick \/ ApiChanges

SpecHandler == InitHandler /\ [][NextHandler]_vars

(***************************************************************************)
(* calculate_index as a function of its price series.                      *)
(***************************************************************************)
RECURSIVE SeqsUpTo(_, _)
SeqsUpTo(S, n) ==
    IF n = 0 THEN {<<>>}
    ELSE LET shorter == SeqsUpTo(S, n - 1)
         IN  shorter \cup {Append(s, x) : s \in shorter, x \in S}

InitIndex ==
    /\ idx_data \in SeqsUpTo(1..MaxPrice, MaxLen)
    /\ idx_out = None
    /\ now = 0 /\ IdleHandler /\ IdleDash

Calculate ==
    /\ idx_out = None
    /\ idx_out' = Some(calculate_index(idx_data))
    /\ UNCHANGED <<now, idx_data, hvars, dvars>>

NextIndex == Calculate

SpecIndex == InitIndex /\ [][NextIndex]_vars

(***************************************************************************)
(* src/dashboard/app.py                                                    *)
(*                                                                         *)
(* An object of the bucket is [day, mtime, readable, rows]: the date of    *)
(* its key (btc_trades_<YYYYMMDD>...), its LastModified, whether get_object *)
(* and read_parquet succeed on it, and its records.  An object is named by *)
(* its position in the bucket.  A record is [time, price, quantity].       *)
(***************************************************************************)
Minute == 60
Hour   == 60 * Minute
Day    == 24 * Hour

MaxRuns    == 2     \* script runs in one behaviour
MaxElapsed == 1     \* seconds load_data may take between its two clock reads
BigObjects == 301   \* objects of the large bucket
MaxRows    == 3     \* records of a resampled sequence

\* line 76: the selectbox's options.
TIME_WINDOWS == {1, 4, 12, 24}
\* line 22: @st.cache_data(ttl=60)
CACHE_TTL == 60

Range(s) == {s[i] : i \in 1..Len(s)}

RECURSIVE Concat(_)
Concat(ss) ==
    IF ss = <<>> THEN <<>>
    ELSE IF Len(ss) = 1 THEN ss[1]
    ELSE LET mid == Len(ss) \div 2
         IN  Concat(SubSeq(ss, 1, mid)) \o Concat(SubSeq(ss, mid + 1, Len(ss)))

\* strftime('%Y%m%d'): the calendar day of an instant, as a day number.
DayOf(t) == t \div Day

\* lines 25-30: the prefixes, as day numbers.
prefixes_of(today, hours_to_load) ==
    <<DayOf(today)>>
        \o (IF hours_to_load > 12 THEN <<DayOf(today - Day)>> ELSE <<>>)

\* lines 32-38: every page of every prefix, in order.
list_prefix(prefix) ==
    SelectSeq([i \in 1..Len(bucket) |-> i], LAMBDA i : bucket[i].day = prefix)
all_files_of(prefixes) ==
    Concat([k \in 1..Len(prefixes) |-> list_prefix(prefixes[k])])

\* line 45
limit_by_rate(hours_to_load) == 60 * hours_to_load
limit_of(hours_to_load) == IF hours_to_load <= 4 THEN 300 ELSE 1500

\* line 46: sorted(..., key=LastModified, reverse=True), a stable sort.
RECURSIVE SortDescBy(_, _)
SortDescBy(files, keys) ==
    IF keys = {} THEN <<>>
    ELSE LET m == CHOOSE k \in keys : \A j \in keys : j <= k
         IN  SelectSeq(files, LAMBDA i : bucket[i].mtime = m)
                 \o SortDescBy(files, keys \ {m})
sorted_reverse(files) ==
    SortDescBy(files, {bucket[i].mtime : i \in Range(files)})

recent_files_of(all_files, limit) ==
    SubSeq(sorted_reverse(all_files), 1, Min(limit, Len(all_files)))

\* lines 48-55: the objects that were fetched and decoded; the others are
\* skipped.
data_frames_of(recent_files) ==
    SelectSeq(recent_files, LAMBDA i : bucket[i].readable)

\* line 60: pd.concat
concat(data_frames) ==
    Concat([k \in 1..Len(data_frames) |-> bucket[data_frames[k]].rows])

\* lines 64-65
cutoff_inclusive(final_df, t, hours_to_load) ==
    SelectSeq(final_df, LAMBDA r : r.time >= t - hours_to_load * Hour)
cutoff_filter(final_df, t, hours_to_load) ==
    SelectSeq(final_df, LAMBDA r : r.time > t - hours_to_load * Hour)

\* line 67: sort_values(by='time').  The default sort is not stable: any
\* arrangement of the rows that is ascending in time.
sort_values(rows) ==
    LET n == Len(rows)
        perms == {f \in [1..n -> 1..n] : \A a, b \in 1..n : a # b => f[a] # f[b]}
    IN  {[k \in 1..n |-> rows[f[k]]] : f \in
            {g \in perms : \A k \in 1..(n - 1) : rows[g[k]].time <= rows[g[k + 1]].time}}

\* line 108: the resampling rule, in seconds.
rule_adaptive(hours) == IF hours > 12 THEN 5 * Minute ELSE Minute
rule(hours) == Minute

bin_of(t, width) == (t \div width) * width

\* lines 108-113: one row per bin from the first to the last, the price's
\* first, max, min, last and the quantity's sum; dropna drops the empty bins.
high_of_last(group) == group[Len(group)].price
high_of(group) == CHOOSE p \in {r.price : r \in Range(group)} :
                      \A r \in Range(group) : r.price <= p
low_of(group) == CHOOSE p \in {r.price : r \in Range(group)} :
                     \A r \in Range(group) : r.price >= p
RECURSIVE SumQuantity(_)
SumQuantity(group) ==
    IF group = <<>> THEN 0 ELSE group[1].quantity + SumQuantity(Tail(group))

resample(rows, width) ==
    LET lo == bin_of(rows[1].time, width)
        hi == bin_of(rows[Len(rows)].time, width)
        bins == [k \in 1..((hi - lo) \div width + 1) |-> lo + (k - 1) * width]
        group(b) == SelectSeq(rows, LAMBDA r : bin_of(r.time, width) = b)
        dropna == SelectSeq(bins, LAMBDA b : group(b) # <<>>)
    IN  [k \in 1..Len(dropna) |->
            LET g == group(dropna[k]) IN
            [bin_start |-> dropna[k],
             open   |-> g[1].price,
             high   |-> high_of(g),
             low    |-> low_of(g),
             close  |-> g[Len(g)].price,
             volume |-> SumQuantity(g)]]

\* lines 102-113: the candles of the script's df; none when df is empty.
charts(rows, hours) ==
    IF rows = <<>> THEN None ELSE Some(resample(rows, rule(hours)))

NoFiles == <<>>
\* What a call of load_data did: how it ended, its argument, its two clock
\* reads, and the prefixes, listing, selection and decoded objects.
CallRecord(kind, hours, today, cutoff_now, prefixes, listed, recent, frames) ==
    [kind |-> kind, hours |-> hours, today |-> today, cutoff_now |-> cutoff_now,
     prefixes |-> prefixes, all_files |-> listed,
     recent_files |-> recent, data_frames |-> frames]

\* st.cache_data: an entry answers while it is younger than the ttl.
cache_answers(cache, hours, t) ==
    cache[hours] # None /\ t - cache[hours][1].stored_at < CACHE_TTL

EmptyCache == [h \in TIME_WINDOWS |-> None]

\* One run of the script, lines 74-141, with `hours` selected.
\*   refresh     the Refresh button was pressed (lines 96-97)
\*   listing_ok  list_objects_v2 answers every page (lines 35-38 sit in no try)
\*   elapsed     the seconds between load_data's clock reads (lines 25, 64)
Rerun(hours, refresh, listing_ok, elapsed) ==
    /\ runs < MaxRuns
    /\ runs' = runs + 1
    /\ time_window' = hours
    /\ UNCHANGED <<bucket, hvars, ivars>>
    /\ LET cache == IF refresh THEN EmptyCache ELSE st_cache IN
       IF cache_answers(cache, hours, now)
       THEN /\ df' = cache[hours][1].value
            /\ call' = Some(CallRecord("cached", hours, now, now, <<>>, NoFiles,
                                       NoFiles, NoFiles))
            /\ st_cache' = cache
            /\ now' = now
       ELSE LET today        == now
                prefixes     == prefixes_of(today, hours)
                all_files    == all_files_of(prefixes)
                limit        == limit_of(hours)
                recent_files == recent_files_of(all_files, limit)
                data_frames  == data_frames_of(recent_files)
                final_df     == concat(data_frames)
                cutoff_now   == now + elapsed
                kept         == cutoff_filter(final_df, cutoff_now, hours)
            IN
            IF ~listing_ok
            THEN /\ df' = <<>>
                 /\ call' = Some(CallRecord("raise", hours, today, today,
                                            prefixes, NoFiles, NoFiles, NoFiles))
                 /\ st_cache' = cache
                 /\ now' = now
            ELSE IF all_files = <<>>
            THEN /\ df' = <<>>
                 /\ call' = Some(CallRecord("computed", hours, today, today,
                                            prefixes, all_files, NoFiles, NoFiles))
                 /\ st_cache' = [cache EXCEPT ![hours] =
                                    Some([stored_at |-> now, value |-> <<>>])]
                 /\ now' = now
            ELSE IF data_frames = <<>>
            THEN /\ df' = <<>>
                 /\ call' = Some(CallRecord("computed", hours, today, today,
                                            prefixes, all_files, recent_files,
                                            data_frames))
                 /\ st_cache' = [cache EXCEPT ![hours] =
                                    Some([stored_at |-> now, value |-> <<>>])]
                 /\ now' = now
            ELSE \E sorted \in sort_values(kept) :
                 /\ df' = sorted
                 /\ call' = Some(CallRecord("computed", hours, today, cutoff_now,
                                            prefixes, all_files, recent_files,
                                            data_frames))
                 /\ st_cache' = [cache EXCEPT ![hours] =
                                    Some([stored_at |-> cutoff_now,
                                          value |-> sorted])]
                 /\ now' = cutoff_now
    /\ df_resampled' = IF call'[1].kind = "raise" THEN None
                       ELSE charts(df', hours)

\* Time passes between two runs: the clock moves to a later instant among a
\* few around the start: one second and the cache's ttl after it.
Offsets == {0, 1, CACHE_TTL}
StartOf(t) == (t \div (30 * Minute)) * (30 * Minute)
TimePasses ==
    /\ \E o \in Offsets : StartOf(now) + o > now /\ now' = StartOf(now) + o
    /\ UNCHANGED <<hvars, ivars, dvars>>

\* The buckets of the model, around a start instant S and a window hf:
\* A holds a record one second inside hf's cutoff at S and a recent one, out
\* of order; B, written on the cutoff's day, holds a record on the cutoff and
\* a duplicate of A's; C cannot be decoded.
Row(t, p, q) == [time |-> t, price |-> p, quantity |-> q]
Object(d, m, ok, rows) == [day |-> d, mtime |-> m, readable |-> ok, rows |-> rows]
ObjA(S, hf) == Object(DayOf(S), S - 5, TRUE,
                      <<Row(S - 10, 1, 2), Row(S - hf * Hour + 1, 3, 1)>>)
ObjB(S, hf) == Object(DayOf(S - hf * Hour), S - 7, TRUE,
                      <<Row(S - hf * Hour, 2, 1), Row(S - hf * Hour + 1, 3, 1)>>)
ObjC(S) == Object(DayOf(S), S - 5, FALSE, <<>>)
SmallBuckets(S, hf) ==
    { <<>>, <<ObjC(S)>>, <<ObjA(S, hf)>>, <<ObjB(S, hf), ObjA(S, hf)>>,
      <<ObjC(S), ObjB(S, hf), ObjA(S, hf)>> }
\* Many objects of today, modification times not in listing order, every
\* third one undecodable, no records.
BigBucket(S) ==
    [i \in 1..BigObjects |-> Object(DayOf(S), S - 1 - ((i * 3) % 7), i % 3 # 0, <<>>)]

\* 00:30 and 13:00 of day 1.
Midday == Day + 13 * Hour
StartTimes == {Day + 30 * Minute, Midday}

InitDash ==
    /\ now \in StartTimes
    /\ bucket \in UNION {SmallBuckets(now, hf) : hf \in {1, 24}}
                    \cup (IF now = Midday THEN {BigBucket(now)} ELSE {})
    /\ st_cache = EmptyCache
    /\ time_window = 4
    /\ runs = 0
    /\ call = None /\ df = <<>> /\ df_resampled = None
    /\ IdleHandler /\ IdleIndex

Script ==
    \E hours \in TIME_WINDOWS, refresh \in BOOLEAN, listing_ok \in BOOLEAN,
       elapsed \in 0..MaxElapsed :
        Rerun(hours, refresh, listing_ok, elapsed)

NextDash == Script \/ TimePasses

SpecDash == InitDash /\ [][NextDash]_vars

(***************************************************************************)
(* The resampling as a function of the script's df: any sequence of        *)
(* records ascending in time, which is what load_data returns.             *)
(***************************************************************************)
RowTimes == {0, 59, 130}
RowPrices == {1, 2, 3}
RowQuantities == {0, 1}
Rows == {Row(t, p, q) : t \in RowTimes, p \in RowPrices, q \in RowQuantities}
IsAscending(rows) ==
    \A k \in 1..(Len(rows) - 1) : rows[k].time <= rows[k + 1].time

InitResample ==
    /\ df \in {s \in SeqsUpTo(Rows, MaxRows) : s # <<>> /\ IsAscending(s)}
    /\ df_resampled = None
    /\ time_window = 4
    /\ now = 0 /\ bucket = <<>> /\ st_cache = <<>> /\ runs = 0 /\ call = None
    /\ IdleHandler /\ IdleIndex

Charts(hours) ==
    /\ df_resampled = None
    /\ time_window' = hours
    /\ df_resampled' = charts(df, hours)
    /\ UNCHANGED <<now, bucket, st_cache, runs, call, df, hvars, ivars>>

NextResample == \E hours \in TIME_WINDOWS : Charts(hours)

SpecResample == InitResample /\ [][NextResample]_vars

(***************************************************************************)
(* Claims about the handler, checked under SpecHandler.                    *)
(***************************************************************************)
IsInvocation == calls' = calls + 1
HasCache == Truthy(_CACHE.payload) /\ Truthy(_CACHE.last_updated)
CacheAge == now - _CACHE.last_updated[1]

\* C1: an invocation made while a payload is cached and the cache is less
\* than 5 minutes old makes no fetch and no put, leaves the cache and the
\* table as they are and returns 200 with the cached payload; at an age of
\* 5 minutes or more the invocation is not a hit: it goes to the API.
C1_CacheHit ==
    [][ (IsInvocation /\ HasCache) =>
            IF CacheAge < 5
            THEN /\ fetches' = fetches /\ puts' = puts /\ history' = history
                 /\ _CACHE' = _CACHE
                 /\ resp' = Response(200, _CACHE.payload)
            ELSE fetches' = fetches + 1 ]_vars

\* A second invocation was answered from the cache, 4 minutes old by now.
C1_Witness ==
    /\ calls = 2 /\ fetches = 1 /\ fresh = 1 /\ HasCache
    /\ CacheAge = 4
    /\ resp = Response(200, _CACHE.payload)

\* An invocation that fetched data and computed a score.
IsFreshStep ==
    /\ fetches' = fetches + 1
    /\ api.kind = "json"
    /\ resp'.kind = "return"

\* C2: the put attempts on the history table are as many as the invocations
\* whose fetch succeeded and whose score was computed: each of those makes
\* exactly one put, a cache hit and a failed fetch make none.
C2_OnePutPerFresh ==
    /\ [](puts = fresh)
    /\ [][ IsInvocation =>
             puts' = puts + (IF IsFreshStep THEN 1 ELSE 0) ]_vars

\* Three invocations: one fresh, one hit, one failed fetch serving stale data.
C2_Witness ==
    /\ calls = 3 /\ fetches = 2 /\ puts = 1 /\ fresh = 1
    /\ api.kind = "error" /\ HasCache /\ CacheAge >= 5
    /\ resp = Response(200, _CACHE.payload)

\* C3: when the cache is stale or empty and the fetch fails, the answer is
\* 200 with the stale payload if there is one and 500 otherwise, the cache
\* is left as it is and the fetch is not retried; so after one fresh
\* computation no invocation of the process answers 500.
C3_FetchFailure ==
    /\ [][ (IsInvocation /\ fetches' # fetches /\ api.kind = "error") =>
             /\ resp' = IF Truthy(_CACHE.payload)
                        THEN Response(200, _CACHE.payload)
                        ELSE Response(500, FailedBody)
             /\ _CACHE' = _CACHE
             /\ fetches' = fetches + 1
             /\ puts' = puts ]_vars
    /\ [](fresh >= 1 => resp.statusCode # 500)

\* A failed fetch on a stale cache was answered with the stale payload.
C3_Witness ==
    /\ calls = 2 /\ fetches = 2 /\ fresh = 1 /\ api.kind = "error"
    /\ HasCache /\ CacheAge >= 5
    /\ resp = Response(200, _CACHE.payload)

(***************************************************************************)
(* Claims about calculate_index, checked under SpecIndex.                  *)
(***************************************************************************)
\* 50 + 100 * momentum of the series, clamped to 0..100, as num/den with
\* den the sum of the series: momentum = (last - mean)/mean.
ClampedTarget ==
    LET n == Len(idx_data)
        S == SumSeq(idx_data)
        t == 50 * S + 100 * (n * idx_data[n] - S)
    IN  [num |-> IF t < 0 THEN 0 ELSE IF t > 100 * S THEN 100 * S ELSE t,
         den |-> S]
Returned == idx_out # None /\ idx_out[1].kind = "return"
Score == idx_out[1].value
LastIsMean == Len(idx_data) * idx_data[Len(idx_data)] = SumSeq(idx_data)

\* C8 as stated: the score is clamp(50 + 100 * momentum, 0, 100) rounded to
\* the nearest integer (at most 1/2 away from it), an integer of 0..100, and
\* 50 when the last price is the mean.
C8_RoundedToNearest ==
    Returned =>
        /\ Score \in 0..100
        /\ 2 * Score * ClampedTarget.den - 2 * ClampedTarget.num <= ClampedTarget.den
        /\ 2 * ClampedTarget.num - 2 * Score * ClampedTarget.den <= ClampedTarget.den
        /\ LastIsMean => Score = 50

\* C8 amended: the score is clamp(50 + 100 * momentum, 0, 100) truncated to
\* an integer (the largest integer not above it), an integer of 0..100, and
\* 50 with sentiment "Neutral" when the last price is the mean.
C8_Truncated ==
    /\ idx_data # <<>> => (idx_out = None \/ Returned)
    /\ Returned =>
        /\ Score \in 0..100
        /\ Score * ClampedTarget.den <= ClampedTarget.num
        /\ ClampedTarget.num < (Score + 1) * ClampedTarget.den
        /\ LastIsMean => Score = 50 /\ sentiment_of(Score) = "Neutral"

\* A score strictly inside 0..100 that lies more than 1/2 below its target.
C8_Witness ==
    /\ Returned /\ Score > 0 /\ Score < 100
    /\ 2 * (ClampedTarget.num - Score * ClampedTarget.den) > ClampedTarget.den

(***************************************************************************)
(* Claims about load_data, checked under SpecDash.                         *)
(***************************************************************************)
Called == call # None
TheCall == call[1]
\* load_data's body ran (the call was not answered from the result cache).
BodyRan == Called /\ TheCall.kind \in {"computed", "raise"}
Computed == Called /\ TheCall.kind = "computed"
Cached == Called /\ TheCall.kind = "cached"
Cutoff == TheCall.cutoff_now - TheCall.hours * Hour

Count(rows, r) == Cardinality({k \in 1..Len(rows) : rows[k] = r})
\* The records of the selected objects that can be fetched and decoded.
DecodedRows ==
    Concat([k \in 1..Len(TheCall.recent_files) |->
                IF bucket[TheCall.recent_files[k]].readable
                THEN bucket[TheCall.recent_files[k]].rows ELSE <<>>])

\* C5 as stated: whatever call returned df, answered from the result cache
\* or not, every record of df is newer than that call's now - window_hours.
C5_EveryCallWithinWindow ==
    (Called /\ TheCall.kind # "raise") =>
        \A k \in 1..Len(df) : df[k].time > Cutoff

\* C5 amended: a call that runs load_data's body returns exactly the records
\* of the decoded selected objects with time > now - window_hours, each as
\* often as it occurs (a record on the cutoff or older is left out,
\* duplicates are kept); a call answered from the result cache returns the
\* value stored less than 60 seconds before, whose records are newer than
\* the storing call's cutoff, not the present one.
C5_ComputedWithinWindow ==
    /\ Computed =>
        /\ \A k \in 1..Len(df) : df[k].time > Cutoff
        /\ \A r \in Range(DecodedRows) \cup Range(df) :
              Count(df, r) = IF r.time > Cutoff THEN Count(DecodedRows, r) ELSE 0
    /\ Cached =>
        /\ st_cache[TheCall.hours] # None
        /\ df = st_cache[TheCall.hours][1].value
        /\ TheCall.today - st_cache[TheCall.hours][1].stored_at < CACHE_TTL
        /\ \A k \in 1..Len(df) :
              df[k].time > st_cache[TheCall.hours][1].stored_at - TheCall.hours * Hour

\* A computed call that skipped an undecodable object, left out a decoded
\* record on the cutoff and kept a record twice.
C5_Witness ==
    /\ Computed
    /\ \E i \in Range(TheCall.recent_files) : ~bucket[i].readable
    /\ \E r \in Range(DecodedRows) : r.time = Cutoff
    /\ \E r \in Range(df) : Count(df, r) = 2

\* C9: no listing, fetch or decode error makes load_data fail.
C9_NeverRaises == Called => TheCall.kind # "raise"

\* sel is the first k of all by modification time, descending.
IsFirstByMtime(sel, all, k) ==
    /\ Len(sel) = k
    /\ Range(sel) \subseteq Range(all)
    /\ Cardinality(Range(sel)) = k
    /\ \A j \in 1..(k - 1) : bucket[sel[j]].mtime >= bucket[sel[j + 1]].mtime
    /\ k > 0 => \A i \in Range(all) \ Range(sel) :
                    bucket[i].mtime <= bucket[sel[k]].mtime
Listed == {i \in 1..Len(bucket) : bucket[i].day \in Range(TheCall.prefixes)}

\* C10 as stated: the objects fetched are the first R * window_hours of the
\* listed objects by modification time, descending, for a rate R of 60..65,
\* so at most R * window_hours objects are fetched.
C10_RateTimesWindow ==
    Computed =>
        \E R \in 60..65 :
            /\ IsFirstByMtime(TheCall.recent_files, TheCall.all_files,
                              Min(R * TheCall.hours, Len(TheCall.all_files)))
            /\ Len(TheCall.recent_files) <= R * TheCall.hours

\* C10 amended: the objects fetched are the first `limit` of the union of
\* the listed objects by modification time, descending, where limit is 300
\* for a window of at most 4 hours and 1500 for a longer one; so at most
\* that many objects are fetched.
C10_FixedLimits ==
    Computed =>
        LET limit == IF TheCall.hours <= 4 THEN 300 ELSE 1500 IN
        /\ Range(TheCall.all_files) = Listed
        /\ Len(TheCall.all_files) = Cardinality(Listed)
        /\ IsFirstByMtime(TheCall.recent_files, TheCall.all_files,
                          Min(limit, Len(TheCall.all_files)))
        /\ Len(TheCall.recent_files) <= limit

\* More than 300 objects were listed and the 300 newest fetched.
C10_Witness ==
    /\ Computed /\ TheCall.hours <= 4
    /\ Len(TheCall.all_files) > 300
    /\ Len(TheCall.recent_files) = 300

(***************************************************************************)
(* Claims about the resampling, checked under SpecResample.                *)
(***************************************************************************)
Resampled == df_resampled # None
Bars == df_resampled[1]
BinStarts == {Bars[k].bin_start : k \in 1..Len(Bars)}
\* The records of df in the one-minute bin that starts at b.
InBin(b) == {k \in 1..Len(df) : b <= df[k].time /\ df[k].time < b + 60}

C7_Ohlcv ==
    Resampled =>
        /\ \A k \in 1..Len(df) : \E j \in 1..Len(Bars) :
              Bars[j].bin_start = (df[k].time \div 60) * 60
        /\ \A j \in 1..Len(Bars) :
            LET bar == Bars[j]
                G == InBin(bar.bin_start)
                first == CHOOSE t \in {df[k].time : k \in G} :
                             \A k \in G : t <= df[k].time
                last  == CHOOSE t \in {df[k].time : k \in G} :
                             \A k \in G : t >= df[k].time
            IN  /\ G # {}
                /\ \E k \in G : df[k].time = first /\ df[k].price = bar.open
                /\ \E k \in G : df[k].time = last /\ df[k].price = bar.close
                /\ \E k \in G : df[k].price = bar.high
                /\ \A k \in G : df[k].price <= bar.high
                /\ \E k \in G : df[k].price = bar.low
                /\ \A k \in G : df[k].price >= bar.low
                /\ bar.volume = SumSeq([i \in 1..Len(df) |->
                                   IF i \in G THEN df[i].quantity ELSE 0])
                /\ bar.low <= bar.open /\ bar.open <= bar.high
                /\ bar.low <= bar.close /\ bar.close <= bar.high
                /\ bar.volume >= 0
                /\ Cardinality(G) = 1 =>
                      /\ bar.open = bar.high /\ bar.high = bar.low
                      /\ bar.low = bar.close

\* A bar of three records whose open, high and low differ.
C7_Witness ==
    /\ Resampled
    /\ \E j \in 1..Len(Bars) :
          /\ Cardinality(InBin(Bars[j].bin_start)) = 3
          /\ Bars[j].open = 2 /\ Bars[j].high = 3
          /\ Bars[j].low = 1 /\ Bars[j].close = 1

====
